---- MODULE Spec2Model ----
(***************************************************************************)
(* The two example programs of the repository, 01-json-prompt/main.go and  *)
(* 02-structured-output/main.go, as one state machine.  Both programs run  *)
(* the same straight line: read OLLAMA_HOST, fall back to the default      *)
(* address, parse it, build the client, build one chat request and call    *)
(* client.Chat once with a handler that stores the reply in `answer`.      *)
(*                                                                         *)
(* The package github.com/ollama/ollama/api (NewClient, Client.Chat) is an *)
(* imported dependency; none of its code is in the repository.  Its call   *)
(* is modelled as an environment that may invoke the handler any number of *)
(* times (up to MaxResponses) and then return nil or an error.             *)
(***************************************************************************)
EXTENDS Naturals, Sequences, FiniteSets

VARIABLES
    prog,          \* which main.go is running
    OLLAMA_HOST,   \* the environment variable, "" when unset or empty
    pc,            \* position in main
    ollamaRawUrl,  \* main.go:23
    usedDefault,   \* history: the assignment of main.go:25 was executed
    url,           \* main.go:28, the *url.URL (NilUrl when Parse failed)
    client,        \* main.go:30
    jsonModel,     \* 02-structured-output/main.go:62
    req,           \* the *api.ChatRequest
    answer,        \* main.go:62 / :85
    err,           \* the error client.Chat returned
    chatCalls,     \* history: number of calls of client.Chat
    delivered,     \* history: the responses the handler was invoked with
    stdout,        \* lines written by fmt.Println
    exit           \* how the process ended

vars == <<prog, OLLAMA_HOST, pc, ollamaRawUrl, usedDefault, url, client,
          jsonModel, req, answer, err, chatCalls, delivered, stdout, exit>>

\* Bound: how many times the library invokes the handler during one Chat call.
MaxResponses == 2

Programs == {"01-json-prompt", "02-structured-output"}

DefaultRawUrl == "http://localhost:11434"

\* Values of OLLAMA_HOST: unset/empty, the default address spelled out,
\* another valid address, and two strings url.Parse rejects.
Overrides == {"", "http://localhost:11434", "http://gpu-box:11434",
              "http://[::1", "://nohost"}

Nil == "nil"
NilUrl == [Scheme |-> "nil", Host |-> "nil"]
NoClient == [base |-> NilUrl, http |-> "none"]
NoRequest == [Model |-> "", Messages |-> <<>>, Stream |-> TRUE, Format |-> Nil]

\* net/url.Parse on the strings above: (*URL, error).  On an error the URL
\* returned is nil.
UrlParse(s) ==
    CASE s = "http://localhost:11434" ->
            [url |-> [Scheme |-> "http", Host |-> "localhost:11434"], err |-> Nil]
      [] s = "http://gpu-box:11434" ->
            [url |-> [Scheme |-> "http", Host |-> "gpu-box:11434"], err |-> Nil]
      [] s = "" ->
            [url |-> [Scheme |-> "", Host |-> ""], err |-> Nil]
      [] s = "http://[::1" ->
            [url |-> NilUrl, err |-> "missing ']' in host"]
      [] s = "://nohost" ->
            [url |-> NilUrl, err |-> "missing protocol scheme"]

\* The content of a reply, and the replies the server may send.
Contents == {"", "{\"scientific_name\":\"Gallus\"}", "{\"main_species\":\"chicken\"}"}
Responses == [Message : [Role : {"assistant"}, Content : Contents], Done : BOOLEAN]

\* 02-structured-output/main.go:34-60
schema ==
    [type |-> "object",
     properties |-> {"scientific_name", "main_species", "average_length",
                     "average_lifespan", "average_weight", "countries"},
     required |-> <<"scientific_name", "main_species", "average_length",
                    "average_lifespan", "average_weight", "countries">>]

\* json.Marshal of a map: the keys come out sorted; a map of strings and
\* string slices never fails to marshal.
JsonMarshal(m) ==
    [bytes |-> <<<<"properties", m.properties>>, <<"required", m.required>>,
                 <<"type", m.type>>>>,
     err |-> Nil]

\* main.go:46-49 / 02-structured-output/main.go:70-72
messages ==
    IF prog = "01-json-prompt"
    THEN <<[Role |-> "system", Content |-> "systemInstructions"],
           [Role |-> "user", Content |-> "chicken"]>>
    ELSE <<[Role |-> "user", Content |-> "Tell me about chicken"]>>

Init ==
    /\ prog \in Programs
    /\ OLLAMA_HOST \in Overrides
    /\ pc = "getenv"
    /\ ollamaRawUrl = ""
    /\ usedDefault = FALSE
    /\ url = NilUrl
    /\ client = NoClient
    /\ jsonModel = Nil
    /\ req = NoRequest
    /\ answer = ""
    /\ err = Nil
    /\ chatCalls = 0
    /\ delivered = <<>>
    /\ stdout = <<>>
    /\ exit = "running"

\* main.go:24, the assignment: ollamaRawUrl = os.Getenv("OLLAMA_HOST")
Getenv ==
    /\ pc = "getenv"
    /\ ollamaRawUrl' = OLLAMA_HOST
    /\ pc' = "testEmpty"
    /\ UNCHANGED <<prog, OLLAMA_HOST, usedDefault, url, client, jsonModel, req,
                   answer, err, chatCalls, delivered, stdout, exit>>

\* A condition inverted: != in place of ==.
HostIsEmptyInverted(s) == s # ""

\* main.go:24, the condition: ollamaRawUrl == ""
HostIsEmpty(s) == s = ""

\* main.go:25
UseDefault ==
    /\ pc = "testEmpty"
    /\ HostIsEmpty(ollamaRawUrl)
    /\ ollamaRawUrl' = DefaultRawUrl
    /\ usedDefault' = TRUE
    /\ pc' = "parse"
    /\ UNCHANGED <<prog, OLLAMA_HOST, url, client, jsonModel, req, answer, err,
                   chatCalls, delivered, stdout, exit>>

\* main.go:24-26, the condition is false and the override is kept
KeepOverride ==
    /\ pc = "testEmpty"
    /\ ~HostIsEmpty(ollamaRawUrl)
    /\ pc' = "parse"
    /\ UNCHANGED <<prog, OLLAMA_HOST, ollamaRawUrl, usedDefault, url, client,
                   jsonModel, req, answer, err, chatCalls, delivered, stdout, exit>>

\* main.go:28: url, _ := url.Parse(ollamaRawUrl); the error is discarded
ParseUrl ==
    /\ pc = "parse"
    /\ url' = UrlParse(ollamaRawUrl).url
    /\ pc' = "newClient"
    /\ UNCHANGED <<prog, OLLAMA_HOST, ollamaRawUrl, usedDefault, client, jsonModel,
                   req, answer, err, chatCalls, delivered, stdout, exit>>

\* main.go:30: client := api.NewClient(url, http.DefaultClient)
NewClient ==
    /\ pc = "newClient"
    /\ client' = [base |-> url, http |-> "DefaultClient"]
    /\ pc' = IF prog = "02-structured-output" THEN "marshal" ELSE "build"
    /\ UNCHANGED <<prog, OLLAMA_HOST, ollamaRawUrl, usedDefault, url, jsonModel,
                   req, answer, err, chatCalls, delivered, stdout, exit>>

\* 02-structured-output/main.go:62-65
MarshalSchema ==
    /\ pc = "marshal"
    /\ LET r == JsonMarshal(schema) IN
         IF r.err # Nil
         THEN /\ exit' = "fatal"
              /\ pc' = "exited"
              /\ UNCHANGED jsonModel
         ELSE /\ jsonModel' = r.bytes
              /\ pc' = "build"
              /\ UNCHANGED exit
    /\ UNCHANGED <<prog, OLLAMA_HOST, ollamaRawUrl, usedDefault, url, client, req,
                   answer, err, chatCalls, delivered, stdout>>

\* main.go:46-62 / 02-structured-output/main.go:70-85
BuildRequest ==
    /\ pc = "build"
    /\ req' = [Model |-> "granite3-moe:1b",
               Messages |-> messages,
               Stream |-> FALSE,
               Format |-> IF prog = "01-json-prompt" THEN "json" ELSE jsonModel]
    /\ answer' = ""
    /\ pc' = "chat"
    /\ UNCHANGED <<prog, OLLAMA_HOST, ollamaRawUrl, usedDefault, url, client,
                   jsonModel, err, chatCalls, delivered, stdout, exit>>

\* main.go:63 / 02-structured-output/main.go:86: client.Chat is entered
CallChat ==
    /\ pc = "chat"
    /\ chatCalls' = chatCalls + 1
    /\ pc' = "inChat"
    /\ UNCHANGED <<prog, OLLAMA_HOST, ollamaRawUrl, usedDefault, url, client,
                   jsonModel, req, answer, err, delivered, stdout, exit>>

\* The reply appended to answer (+=) in place of assigned.
HandlerAppends(resp) ==
    /\ answer' = answer \o resp.Message.Content
    /\ delivered' = Append(delivered, resp)

\* main.go:63-66, the handler: answer = resp.Message.Content; return nil
Handler(resp) ==
    /\ answer' = resp.Message.Content
    /\ delivered' = Append(delivered, resp)

\* The library invokes the handler; the handler returned nil, the call goes on.
LibInvokesHandler ==
    /\ pc = "inChat"
    /\ Len(delivered) < MaxResponses
    /\ \E resp \in Responses : Handler(resp)
    /\ UNCHANGED <<prog, OLLAMA_HOST, pc, ollamaRawUrl, usedDefault, url, client,
                   jsonModel, req, err, chatCalls, stdout, exit>>

\* client.Chat returns, with nil or with an error.
LibReturns ==
    /\ pc = "inChat"
    /\ \E e \in {Nil, "error"} : err' = e
    /\ pc' = "returned"
    /\ UNCHANGED <<prog, OLLAMA_HOST, ollamaRawUrl, usedDefault, url, client,
                   jsonModel, req, answer, chatCalls, delivered, stdout, exit>>

\* A client built on a nil *url.URL: the library may dereference it.
LibPanics ==
    /\ pc = "inChat"
    /\ client.base = NilUrl
    /\ exit' = "panic"
    /\ pc' = "exited"
    /\ UNCHANGED <<prog, OLLAMA_HOST, ollamaRawUrl, usedDefault, url, client,
                   jsonModel, req, answer, err, chatCalls, delivered, stdout>>

\* main.go:68-70: log.Fatalln
Fatal ==
    /\ pc = "returned"
    /\ err # Nil
    /\ exit' = "fatal"
    /\ pc' = "exited"
    /\ UNCHANGED <<prog, OLLAMA_HOST, ollamaRawUrl, usedDefault, url, client,
                   jsonModel, req, answer, err, chatCalls, delivered, stdout>>

\* main.go:71-72: fmt.Println(answer); fmt.Println()
PrintAnswer ==
    /\ pc = "returned"
    /\ err = Nil
    /\ stdout' = stdout \o <<answer, "">>
    /\ exit' = "ok"
    /\ pc' = "exited"
    /\ UNCHANGED <<prog, OLLAMA_HOST, ollamaRawUrl, usedDefault, url, client,
                   jsonModel, req, answer, err, chatCalls, delivered>>

Next ==
    \/ Getenv
    \/ UseDefault
    \/ KeepOverride
    \/ ParseUrl
    \/ NewClient
    \/ MarshalSchema
    \/ BuildRequest
    \/ CallChat
    \/ LibInvokesHandler
    \/ LibReturns
    \/ LibPanics
    \/ Fatal
    \/ PrintAnswer

Spec == Init /\ [][Next]_vars

\* main has passed line 28: the endpoint is resolved.
Resolved == pc \notin {"getenv", "testEmpty", "parse"}

\* OLLAMA_HOST holds a string url.Parse rejects.
InvalidOverride == OLLAMA_HOST # "" /\ UrlParse(OLLAMA_HOST).err # Nil

\* C7: when the override is not a valid URL the program stops with a
\* configuration error before any I/O: no client is built on the invalid
\* endpoint, client.Chat is never called, and the run ends in a fatal exit.
C7_InvalidOverrideFailsBeforeIO ==
    (Resolved /\ InvalidOverride) =>
        /\ client = NoClient
        /\ chatCalls = 0
        /\ (pc = "exited" => exit = "fatal")

\* C8, the state part: once resolved, the default assignment of line 25 was
\* taken exactly when OLLAMA_HOST is unset or empty, the endpoint is then the
\* parsed default address, and a non-empty valid override is itself the
\* endpoint; the client, once built, is built on that endpoint.
C8_ResolvedEndpoint ==
    Resolved =>
        /\ usedDefault <=> (OLLAMA_HOST = "")
        /\ OLLAMA_HOST = "" =>
              /\ ollamaRawUrl = DefaultRawUrl
              /\ url = [Scheme |-> "http", Host |-> "localhost:11434"]
        /\ (OLLAMA_HOST # "" /\ ~InvalidOverride) =>
              /\ ollamaRawUrl = OLLAMA_HOST
              /\ url = UrlParse(OLLAMA_HOST).url
              /\ url # NilUrl
        /\ pc \notin {"newClient"} => client.base = url

\* C8: the resolved endpoint is the default http://localhost:11434 exactly
\* when no override is supplied, it is the override when a non-empty valid one
\* is supplied, and it does not change after resolution.
C8_EndpointIsDefaultOrOverride ==
    /\ []C8_ResolvedEndpoint
    /\ [][Resolved => (url' = url /\ ollamaRawUrl' = ollamaRawUrl
                       /\ usedDefault' = usedDefault)]_vars

\* C8 witness: a run that ended after a non-empty valid override, other than
\* the default address, was resolved and used for the client.
C8_Witness ==
    /\ pc = "exited"
    /\ OLLAMA_HOST = "http://gpu-box:11434"
    /\ ~usedDefault
    /\ client.base = [Scheme |-> "http", Host |-> "gpu-box:11434"]
    /\ chatCalls = 1

\* The Message.Content of the last response the handler was invoked with;
\* the initial value of answer (main.go:62) when it was never invoked.
LastContent ==
    IF delivered = <<>> THEN "" ELSE delivered[Len(delivered)].Message.Content

\* C13: answer is always the Message.Content of the last response the handler
\* received (each invocation overwrites it, none appends); it is printed,
\* followed by an empty line, only when client.Chat returned no error, and
\* what is printed is that last content; when client.Chat returned an error
\* the program ends in log.Fatalln with nothing printed.
C13_PrintedAnswerIsLastResponse ==
    /\ pc \in {"inChat", "returned", "exited"} => answer = LastContent
    /\ stdout # <<>> => (err = Nil /\ exit = "ok" /\ stdout = <<LastContent, "">>)
    /\ exit = "ok" => stdout = <<LastContent, "">>
    /\ err # Nil => stdout = <<>>
    /\ (pc = "exited" /\ err # Nil) => exit = "fatal"

\* C13 witness: the handler received two different non-empty replies, Chat
\* returned nil, and the second reply alone was printed.
C13_Witness ==
    /\ exit = "ok"
    /\ Len(delivered) = 2
    /\ delivered[1].Message.Content # ""
    /\ delivered[2].Message.Content # ""
    /\ delivered[1].Message.Content # delivered[2].Message.Content
    /\ stdout = <<delivered[2].Message.Content, "">>

====
